---- MODULE Spec2Model ----
(***************************************************************************)
(* Position-accounting engine of sol-paper-trader (src/src/App.tsx, the    *)
(* App component of lines 90-631).                                         *)
(*                                                                         *)
(* The React state (useState<AppState>) is the variable `state`; every     *)
(* handler is a setState updater, modelled as an operator from the old     *)
(* AppState to a result [s, res], followed by the effects React runs after *)
(* the commit (the snapshot effect of lines 134-137).                      *)
(*                                                                         *)
(* Numbers are JavaScript doubles in the source.  They are modelled as     *)
(* exact rationals <<numerator, denominator>> in lowest terms with a       *)
(* positive denominator, so IEEE-754 rounding is outside the model.        *)
(***************************************************************************)
EXTENDS Integers, Sequences, FiniteSets, TLC

VARIABLES state, track, last, ops, store, writable

vars == <<state, track, last, ops, store, writable>>

(***************************************************************************)
(* Exact rational arithmetic.                                              *)
(***************************************************************************)
Abs(x) == IF x < 0 THEN -x ELSE x

RECURSIVE GCD(_, _)
GCD(a, b) == IF b = 0 THEN a ELSE GCD(b, a % b)

Rat(n, d) ==
    LET g == GCD(Abs(n), Abs(d))
        sg == IF d < 0 THEN -1 ELSE 1
    IN  <<sg * (n \div g), sg * (d \div g)>>

Num(n) == <<n, 1>>

Zero == Num(0)

Neg(a) == <<-a[1], a[2]>>

Add(a, b) ==
    LET g == GCD(a[2], b[2])
    IN  Rat(a[1] * (b[2] \div g) + b[1] * (a[2] \div g), (a[2] \div g) * b[2])

Sub(a, b) == Add(a, Neg(b))

Mul(a, b) ==
    LET g1 == GCD(Abs(a[1]), b[2])
        g2 == GCD(Abs(b[1]), a[2])
    IN  Rat((a[1] \div g1) * (b[1] \div g2), (a[2] \div g2) * (b[2] \div g1))

Div(a, b) == Mul(a, IF b[1] < 0 THEN <<-b[2], -b[1]>> ELSE <<b[2], b[1]>>)

Lt(a, b) ==
    LET g == GCD(a[2], b[2])
    IN  a[1] * (b[2] \div g) < b[1] * (a[2] \div g)

Le(a, b) == ~Lt(b, a)

IsPos(a) == a[1] > 0

AbsR(a) == <<Abs(a[1]), a[2]>>

MaxR(a, b) == IF Lt(a, b) THEN b ELSE a

MinR(a, b) == IF Lt(b, a) THEN b ELSE a

\* a >= 0 and a < 1/t, for a positive integer t
BelowInv(a, t) == a[1] = 0 \/ t <= (a[2] - 1) \div a[1]

(***************************************************************************)
(* Bounds of the model and the inputs the user actions draw from.          *)
(***************************************************************************)
MaxOps == 3

MaxPositions == 2

None == <<>>

NoName == "undefined"

Ids == 1..MaxPositions

StartAmounts == {Num(10)}

OpenMarks == {Num(1000)}

BuyMarks == {Num(1000), Num(2000)}

SellMarks == {Num(1000), Num(3000)}

NewMarks == {Num(2000)}

BuyAmounts == {Num(2), Num(10)}

Deltas == {Num(1), Num(-2)}

\* 0.0000001 of line 272
Eps == <<1, 10000000>>

\* the 1e-9 of line 126, as the integer 1/tolerance
TolInv == 1000000000

\* the tolerance of the Confirm Sell handler, line 558, as the integer
\* 1/tolerance.  The source's 1e-12 is finer than any rational the 32-bit
\* integers of the model can hold; 1e-9 is the finest that fits and keeps the
\* order of the source, 0 < tolerance < Eps.
SellTolInv == 1000000000

\* an excess over the position that the handler's tolerance lets through
Hair == <<1, SellTolInv>>

(***************************************************************************)
(* Pure helpers of the source.                                             *)
(***************************************************************************)
\* isFinitePos, line 84: a number, finite, > 0 (None models a non-number)
isFinitePos(n) == n # None /\ IsPos(n)

\* s.entries.findIndex(e => e.id === id): 0 models -1, indices are 1-based
findIndex(entries, id) ==
    LET I == {i \in 1..Len(entries) : entries[i].id = id}
    IN  IF I = {} THEN 0 ELSE CHOOSE i \in I : \A j \in I : i <= j

\* the mark-to-market value of one entry, lines 118-120 and 140-142
entryValue(e) ==
    LET cur == IF e.currentMarketCap # None THEN e.currentMarketCap
               ELSE e.entryMarketCap
        mult == IF IsPos(cur) THEN Div(cur, e.entryMarketCap) ELSE Num(1)
    IN  Mul(e.solInvested, mult)

RECURSIVE SumOpenValue(_)
SumOpenValue(entries) ==
    IF entries = <<>> THEN Zero
    ELSE Add(IF Head(entries).status = "open" THEN entryValue(Head(entries))
             ELSE Zero,
             SumOpenValue(Tail(entries)))

\* the openValue of pushHistoryPoint, lines 115-121
openValueOf(s) == SumOpenValue(s.entries)

\* a >= 0 and a <= 1/t
BelowOrAtInv(a, t) == a[1] = 0 \/ t <= a[2] \div a[1]

samePoint_inclusive(lastPt, point) ==
    /\ BelowOrAtInv(AbsR(Sub(lastPt.balance, point.balance)), TolInv)
    /\ BelowOrAtInv(AbsR(Sub(lastPt.openValue, point.openValue)), TolInv)

samePoint_withTime(lastPt, point) ==
    /\ lastPt.t = point.t
    /\ BelowInv(AbsR(Sub(lastPt.balance, point.balance)), TolInv)
    /\ BelowInv(AbsR(Sub(lastPt.openValue, point.openValue)), TolInv)

\* the dedup test of line 126
samePoint(lastPt, point) ==
    /\ BelowInv(AbsR(Sub(lastPt.balance, point.balance)), TolInv)
    /\ BelowInv(AbsR(Sub(lastPt.openValue, point.openValue)), TolInv)

pushHistoryPoint_keepsLatest(s, now) ==
    LET h == s.history
        point == [t |-> now, balance |-> s.balance, openValue |-> openValueOf(s)]
    IN  IF Len(h) > 0 /\ samePoint(h[Len(h)], point)
        THEN [s |-> s, res |-> "same"]
        ELSE [s |-> [s EXCEPT !.history = <<point>>], res |-> "ok"]

\* the updater of pushHistoryPoint, lines 114-130
pushHistoryPoint(s, now) ==
    LET h == s.history
        point == [t |-> now, balance |-> s.balance, openValue |-> openValueOf(s)]
    IN  IF Len(h) > 0 /\ samePoint(h[Len(h)], point)
        THEN [s |-> s, res |-> "same"]
        ELSE [s |-> [s EXCEPT !.history = Append(h, point)], res |-> "ok"]

\* openEntries, line 108
openEntries(s) == SelectSeq(s.entries, LAMBDA e : e.status = "open")

RECURSIVE SumValue(_)
SumValue(entries) ==
    IF entries = <<>> THEN Zero
    ELSE Add(SumValue(Tail(entries)), entryValue(Head(entries)))

\* totals.investedOpen, lines 139-143
investedOpen(s) == SumValue(openEntries(s))

\* soldEntries, line 109
soldEntries(s) == SelectSeq(s.entries, LAMBDA e : e.status = "sold")

\* e.pnl ?? 0, lines 144 and 151
pnlOrZero(e) == IF e.pnl # None THEN e.pnl ELSE Zero

RECURSIVE SumPnl(_)
SumPnl(entries) ==
    IF entries = <<>> THEN Zero
    ELSE Add(SumPnl(Tail(entries)), pnlOrZero(Head(entries)))

\* totals.realized, line 144
realizedTotal(s) == SumPnl(soldEntries(s))

isWin_orEven(e) == pnlOrZero(e)[1] >= 0

\* (e.pnl ?? 0) > 0, line 151
isWin(e) == IsPos(pnlOrZero(e))

\* winStats.wins, line 151
wins(s) == Len(SelectSeq(soldEntries(s), isWin))

\* winStats.winRate, lines 150-153
winRate(s) ==
    LET closed == Len(soldEntries(s))
    IN  IF closed > 0 THEN Mul(Rat(wins(s), closed), Num(100)) ELSE Zero

\* the state of lines 63, 66, 78 and 305
Uninitialized ==
    [startingBalance |-> None, balance |-> Zero, entries |-> <<>>,
     nextId |-> 1, history |-> <<>>]

(***************************************************************************)
(* Persistence, lines 56-80.  The stored item is modelled by the document   *)
(* JSON.parse reads back from what JSON.stringify wrote: null stays null     *)
(* (Null), a key whose value is undefined is dropped, and reading a key the  *)
(* document lacks yields undefined (None).  NoItem is the absent item.       *)
(***************************************************************************)
Null == <<0, 0, 0>>

NoItem == <<>>

\* the keys of an Entry that the engine may leave undefined (lines 48-52)
OptionalKeys == {"sellMarketCap", "solReturned", "pnl", "pnlPercent", "soldAt"}

dropUndefined_dropsFalsy(e) ==
    [k \in {k \in DOMAIN e : k \in OptionalKeys \cup {"cumulativeSellAmount"}
                                => e[k] \notin {None, Zero}} |-> e[k]]

\* JSON.stringify of an entry: keys holding undefined are left out
dropUndefined(e) ==
    [k \in {k \in DOMAIN e : k \in OptionalKeys => e[k] # None} |-> e[k]]

\* JSON.stringify(state), line 57
stringify(s) ==
    [startingBalance |-> IF s.startingBalance = None THEN Null
                         ELSE s.startingBalance,
     balance |-> s.balance,
     entries |-> [i \in 1..Len(s.entries) |-> dropUndefined(s.entries[i])],
     nextId |-> s.nextId,
     history |-> s.history]

\* reading the keys of a parsed entry: a missing key reads as undefined
readEntry(doc) ==
    [k \in DOMAIN doc \cup OptionalKeys |->
        IF k \in DOMAIN doc THEN doc[k] ELSE None]

\* what JSON.parse makes of an item that is not JSON: it throws (line 64)
NotJson == [SyntaxError |-> TRUE]

\* typeof parsed.balance === "number", line 65 (an absent key reads undefined)
hasNumber(doc, key) == key \in DOMAIN doc /\ doc[key] # Null

\* parsed.startingBalance ?? fallback, line 71: absent or null falls back
orElse(doc, key, fallback) ==
    IF key \in DOMAIN doc /\ doc[key] # Null THEN doc[key] ELSE fallback

\* parsed.nextId ?? fallback, line 74, and the history of line 68, for a key
\* the document lacks
orDefault(doc, key, fallback) ==
    IF key \in DOMAIN doc THEN doc[key] ELSE fallback

\* lines 65-67: the checks that make loadState give up on a parsed document
malformed(doc) == ~hasNumber(doc, "balance") \/ "entries" \notin DOMAIN doc

loadState_nullAsZero(raw) ==
    IF raw = NoItem THEN Uninitialized
    ELSE IF "SyntaxError" \in DOMAIN raw THEN Uninitialized
    ELSE IF malformed(raw) THEN Uninitialized
    ELSE [startingBalance |-> orElse(raw, "startingBalance", Zero),
          balance |-> raw.balance,
          entries |-> [i \in 1..Len(raw.entries) |-> readEntry(raw.entries[i])],
          nextId |-> orDefault(raw, "nextId", 1),
          history |-> orDefault(raw, "history", <<>>)]

loadState_keepsWhatItFinds(raw) ==
    IF raw = NoItem THEN Uninitialized
    ELSE IF "SyntaxError" \in DOMAIN raw THEN Uninitialized
    ELSE [startingBalance |-> orElse(raw, "startingBalance", None),
          balance |-> orElse(raw, "balance", Zero),
          entries |-> IF "entries" \in DOMAIN raw
                      THEN [i \in 1..Len(raw.entries) |->
                                readEntry(raw.entries[i])]
                      ELSE <<>>,
          nextId |-> orDefault(raw, "nextId", 1),
          history |-> orDefault(raw, "history", <<>>)]

\* loadState, lines 60-80: no item (63), an item JSON.parse throws on (64 and
\* 77-79), a document without a numeric balance or an entries array (65-67),
\* and the defaults of a document it accepts (68-76)
loadState(raw) ==
    IF raw = NoItem THEN Uninitialized
    ELSE IF "SyntaxError" \in DOMAIN raw THEN Uninitialized
    ELSE IF malformed(raw) THEN Uninitialized
    ELSE [startingBalance |-> orElse(raw, "startingBalance", None),
          balance |-> raw.balance,
          entries |-> [i \in 1..Len(raw.entries) |-> readEntry(raw.entries[i])],
          nextId |-> orDefault(raw, "nextId", 1),
          history |-> orDefault(raw, "history", <<>>)]

\* saveState, lines 56-58: setItem stores the document, or throws and the
\* catch swallows it, which leaves the item as it was
saveState_keepsItem(item, s, canWrite) == item

saveState(item, s, canWrite) == IF canWrite THEN stringify(s) ELSE item

(***************************************************************************)
(* The setState updaters of the handlers.  Each returns the next AppState  *)
(* and "ok", or the unchanged AppState and the reason of the rejection.    *)
(***************************************************************************)
setStartingBalance_zeroBalance(n) ==
    [s |-> [startingBalance |-> n, balance |-> Zero, entries |-> <<>>,
            nextId |-> 1, history |-> <<>>],
     res |-> "ok"]

\* setStartingBalance, lines 173-175 (history absent, read as [] by ?? [])
setStartingBalance(n) ==
    [s |-> [startingBalance |-> n, balance |-> n, entries |-> <<>>,
            nextId |-> 1, history |-> <<>>],
     res |-> "ok"]

insufficient_orEqual(balance, amount) == Le(balance, amount)

\* s.balance < amount, lines 179 and 235
insufficient(balance, amount) == Lt(balance, amount)

\* the entry literal of lines 180-191
newEntry(s, data) ==
    [id |-> s.nextId,
     name |-> data.name,
     entryMarketCap |-> data.entryMarketCap,
     currentMarketCap |-> data.entryMarketCap,
     solInvested |-> data.solInvested,
     status |-> "open",
     cumulativeBuySOL |-> data.solInvested,
     cumulativeSellAmount |-> Zero,
     cumulativeSellReturnedSOL |-> Zero,
     realizedPnl |-> Zero,
     sellMarketCap |-> None,
     solReturned |-> None,
     pnl |-> None,
     pnlPercent |-> None,
     soldAt |-> None]

addEntry_noIncrement(s, data) ==
    IF insufficient(s.balance, data.solInvested)
    THEN [s |-> s, res |-> "InsufficientBalance"]
    ELSE [s |-> [s EXCEPT !.balance = Sub(s.balance, data.solInvested),
                          !.entries = <<newEntry(s, data)>> \o s.entries],
          res |-> "ok"]

\* addEntry, lines 177-195
addEntry(s, data) ==
    IF insufficient(s.balance, data.solInvested)
    THEN [s |-> s, res |-> "InsufficientBalance"]
    ELSE [s |-> [s EXCEPT !.balance = Sub(s.balance, data.solInvested),
                          !.entries = <<newEntry(s, data)>> \o s.entries,
                          !.nextId = s.nextId + 1],
          res |-> "ok"]

updateCurrentMcap_rebases(s, id, mcap) ==
    LET idx == findIndex(s.entries, id)
    IN  IF idx = 0 THEN [s |-> s, res |-> "PositionNotFound"]
        ELSE [s |-> [s EXCEPT !.entries[idx].currentMarketCap = mcap,
                              !.entries[idx].entryMarketCap = mcap],
              res |-> "ok"]

\* updateCurrentMcap, lines 197-205
updateCurrentMcap(s, id, mcap) ==
    LET idx == findIndex(s.entries, id)
    IN  IF idx = 0 THEN [s |-> s, res |-> "PositionNotFound"]
        ELSE [s |-> [s EXCEPT !.entries[idx].currentMarketCap = mcap],
              res |-> "ok"]

notOpen_unchecked(e) == FALSE

\* e.status !== "open" of lines 210, 234 and 255
notOpen(e) == e.status # "open"

editRejected_partial(s, idx, updated) == [s EXCEPT !.entries[idx] = updated]

\* the `return s` of line 220
editRejected(s, idx, updated) == s

editEntry_noRefund(s, id, updates) ==
    LET idx == findIndex(s.entries, id)
        e == s.entries[idx]
        withName == IF updates.name # NoName
                    THEN [e EXCEPT !.name = updates.name] ELSE e
        withMcap == IF isFinitePos(updates.entryMarketCap)
                    THEN [withName EXCEPT !.entryMarketCap = updates.entryMarketCap]
                    ELSE withName
        hasSol == updates.solInvested # None
        delta == Sub(updates.solInvested, e.solInvested)
        updated == IF hasSol
                   THEN [withMcap EXCEPT
                            !.solInvested = MaxR(Zero, updates.solInvested)]
                   ELSE withMcap
        newBalance == IF hasSol /\ IsPos(delta)
                      THEN Sub(s.balance, delta) ELSE s.balance
    IN  IF idx = 0 THEN [s |-> s, res |-> "PositionNotFound"]
        ELSE IF notOpen(e) THEN [s |-> s, res |-> "PositionClosed"]
        ELSE IF hasSol /\ IsPos(delta) /\ Lt(s.balance, delta)
        THEN [s |-> s, res |-> "InsufficientBalance"]
        ELSE [s |-> [s EXCEPT !.balance = newBalance, !.entries[idx] = updated],
              res |-> "ok"]

editEntry_adjustsBought(s, id, updates) ==
    LET idx == findIndex(s.entries, id)
        e == s.entries[idx]
        withName == IF updates.name # NoName
                    THEN [e EXCEPT !.name = updates.name] ELSE e
        withMcap == IF isFinitePos(updates.entryMarketCap)
                    THEN [withName EXCEPT !.entryMarketCap = updates.entryMarketCap]
                    ELSE withName
        hasSol == updates.solInvested # None
        delta == Sub(updates.solInvested, e.solInvested)
        updated == IF hasSol
                   THEN [withMcap EXCEPT
                            !.solInvested = MaxR(Zero, updates.solInvested),
                            !.cumulativeBuySOL = Add(@, delta)]
                   ELSE withMcap
        newBalance == IF hasSol THEN Sub(s.balance, delta) ELSE s.balance
    IN  IF idx = 0 THEN [s |-> s, res |-> "PositionNotFound"]
        ELSE IF notOpen(e) THEN [s |-> s, res |-> "PositionClosed"]
        ELSE IF hasSol /\ IsPos(delta) /\ Lt(s.balance, delta)
        THEN [s |-> editRejected(s, idx, withMcap), res |-> "InsufficientBalance"]
        ELSE [s |-> [s EXCEPT !.balance = newBalance, !.entries[idx] = updated],
              res |-> "ok"]

\* editEntry, lines 207-228
editEntry(s, id, updates) ==
    LET idx == findIndex(s.entries, id)
        e == s.entries[idx]
        withName == IF updates.name # NoName
                    THEN [e EXCEPT !.name = updates.name] ELSE e
        withMcap == IF isFinitePos(updates.entryMarketCap)
                    THEN [withName EXCEPT !.entryMarketCap = updates.entryMarketCap]
                    ELSE withName
        hasSol == updates.solInvested # None
        delta == Sub(updates.solInvested, e.solInvested)
        updated == IF hasSol
                   THEN [withMcap EXCEPT
                            !.solInvested = MaxR(Zero, updates.solInvested)]
                   ELSE withMcap
        newBalance == IF hasSol THEN Sub(s.balance, delta) ELSE s.balance
    IN  IF idx = 0 THEN [s |-> s, res |-> "PositionNotFound"]
        ELSE IF notOpen(e) THEN [s |-> s, res |-> "PositionClosed"]
        ELSE IF hasSol /\ IsPos(delta) /\ Lt(s.balance, delta)
        THEN [s |-> editRejected(s, idx, withMcap), res |-> "InsufficientBalance"]
        ELSE [s |-> [s EXCEPT !.balance = newBalance, !.entries[idx] = updated],
              res |-> "ok"]

newAvg_unweighted(e, currentMcap, buyAmountSOL) ==
    Div(Add(e.entryMarketCap, currentMcap), Num(2))

newAvg_overBuyAmount(e, currentMcap, buyAmountSOL) ==
    Div(Add(Mul(e.entryMarketCap, e.solInvested), Mul(currentMcap, buyAmountSOL)),
        buyAmountSOL)

newAvg_lastMark(e, currentMcap, buyAmountSOL) == currentMcap

newAvg_oldWeightOnly(e, currentMcap, buyAmountSOL) ==
    Div(Mul(e.entryMarketCap, e.solInvested), Add(e.solInvested, buyAmountSOL))

\* newAvg of line 237
newAvg(e, currentMcap, buyAmountSOL) ==
    Div(Add(Mul(e.entryMarketCap, e.solInvested), Mul(currentMcap, buyAmountSOL)),
        Add(e.solInvested, buyAmountSOL))

buyMore_resetsBought(s, id, currentMcap, buyAmountSOL) ==
    LET idx == findIndex(s.entries, id)
        e == s.entries[idx]
        updated == [e EXCEPT
                      !.entryMarketCap = newAvg(e, currentMcap, buyAmountSOL),
                      !.currentMarketCap = currentMcap,
                      !.solInvested = Add(e.solInvested, buyAmountSOL),
                      !.cumulativeBuySOL = buyAmountSOL]
    IN  IF idx = 0 THEN [s |-> s, res |-> "PositionNotFound"]
        ELSE IF notOpen(e) THEN [s |-> s, res |-> "PositionClosed"]
        ELSE IF insufficient(s.balance, buyAmountSOL)
        THEN [s |-> s, res |-> "InsufficientBalance"]
        ELSE [s |-> [s EXCEPT !.balance = Sub(s.balance, buyAmountSOL),
                              !.entries[idx] = updated],
              res |-> "ok"]

\* buyMore, lines 231-249
buyMore(s, id, currentMcap, buyAmountSOL) ==
    LET idx == findIndex(s.entries, id)
        e == s.entries[idx]
        updated == [e EXCEPT
                      !.entryMarketCap = newAvg(e, currentMcap, buyAmountSOL),
                      !.currentMarketCap = currentMcap,
                      !.solInvested = Add(e.solInvested, buyAmountSOL),
                      !.cumulativeBuySOL = Add(e.cumulativeBuySOL, buyAmountSOL)]
    IN  IF idx = 0 THEN [s |-> s, res |-> "PositionNotFound"]
        ELSE IF notOpen(e) THEN [s |-> s, res |-> "PositionClosed"]
        ELSE IF insufficient(s.balance, buyAmountSOL)
        THEN [s |-> s, res |-> "InsufficientBalance"]
        ELSE [s |-> [s EXCEPT !.balance = Sub(s.balance, buyAmountSOL),
                              !.entries[idx] = updated],
              res |-> "ok"]

closesPosition_noEpsilon(remaining) == Le(remaining, Zero)

\* remaining <= 0.0000001 of line 272
closesPosition(remaining) == Le(remaining, Eps)

sellReturned_atCurrentMark(e, sellMcap, sellAmountSOL) ==
    Mul(sellAmountSOL, Div(sellMcap, e.currentMarketCap))

sellReturned_unscaled(e, sellMcap, sellAmountSOL) == sellAmountSOL

\* returned of lines 257-258
sellReturned(e, sellMcap, sellAmountSOL) ==
    Mul(sellAmountSOL, Div(sellMcap, e.entryMarketCap))

closeEntry_fraction(updated, now) ==
    [updated EXCEPT
        !.status = "sold",
        !.solReturned = updated.cumulativeSellReturnedSOL,
        !.pnl = updated.realizedPnl,
        !.pnlPercent = IF IsPos(updated.cumulativeBuySOL)
                       THEN Div(updated.realizedPnl, updated.cumulativeBuySOL)
                       ELSE Zero,
        !.soldAt = <<now>>,
        !.solInvested = Zero]

closeEntry_noProceeds(updated, now) ==
    [updated EXCEPT
        !.status = "sold",
        !.pnl = updated.realizedPnl,
        !.pnlPercent = IF IsPos(updated.cumulativeBuySOL)
                       THEN Mul(Div(updated.realizedPnl, updated.cumulativeBuySOL),
                                Num(100))
                       ELSE Zero,
        !.soldAt = <<now>>,
        !.solInvested = Zero]

closeEntry_netProceeds(updated, now) ==
    LET pnl == updated.realizedPnl
        totalBuys == updated.cumulativeBuySOL
    IN  [updated EXCEPT
            !.status = "sold",
            !.solReturned = Sub(updated.cumulativeSellReturnedSOL,
                               updated.cumulativeBuySOL),
            !.pnl = pnl,
            !.pnlPercent = IF IsPos(totalBuys)
                           THEN Mul(Div(pnl, totalBuys), Num(100)) ELSE Zero,
            !.soldAt = <<now>>,
            !.solInvested = Zero]

\* the close branch of lines 272-285
closeEntry(updated, now) ==
    LET pnl == updated.realizedPnl
        totalBuys == updated.cumulativeBuySOL
    IN  [updated EXCEPT
            !.status = "sold",
            !.solReturned = updated.cumulativeSellReturnedSOL,
            !.pnl = pnl,
            !.pnlPercent = IF IsPos(totalBuys)
                           THEN Mul(Div(pnl, totalBuys), Num(100)) ELSE Zero,
            !.soldAt = <<now>>,
            !.solInvested = Zero]

partialSell_noSoldUnits(s, id, sellMcap, sellAmountSOL, now) ==
    LET idx == findIndex(s.entries, id)
        e == s.entries[idx]
        returned == sellReturned(e, sellMcap, sellAmountSOL)
        remaining == Sub(e.solInvested, sellAmountSOL)
        updated == [e EXCEPT
                      !.currentMarketCap = sellMcap,
                      !.solInvested = remaining,
                      !.realizedPnl = Add(e.realizedPnl,
                                          Sub(returned, sellAmountSOL)),
                      !.cumulativeSellReturnedSOL =
                          Add(e.cumulativeSellReturnedSOL, returned),
                      !.sellMarketCap = sellMcap]
        final == IF closesPosition(remaining) THEN closeEntry(updated, now)
                 ELSE updated
    IN  IF idx = 0 THEN [s |-> s, res |-> "PositionNotFound"]
        ELSE IF notOpen(e) THEN [s |-> s, res |-> "PositionClosed"]
        ELSE IF ~IsPos(sellAmountSOL) \/ Lt(e.solInvested, sellAmountSOL)
        THEN [s |-> s, res |-> "InvalidSellAmount"]
        ELSE [s |-> [s EXCEPT !.balance = Add(s.balance, returned),
                              !.entries[idx] = final],
              res |-> "ok"]

\* partialSell, lines 252-291
partialSell(s, id, sellMcap, sellAmountSOL, now) ==
    LET idx == findIndex(s.entries, id)
        e == s.entries[idx]
        returned == sellReturned(e, sellMcap, sellAmountSOL)
        realized == Sub(returned, sellAmountSOL)
        remaining == Sub(e.solInvested, sellAmountSOL)
        updated == [e EXCEPT
                      !.currentMarketCap = sellMcap,
                      !.solInvested = remaining,
                      !.realizedPnl = Add(e.realizedPnl, realized),
                      !.cumulativeSellAmount =
                          Add(e.cumulativeSellAmount, sellAmountSOL),
                      !.cumulativeSellReturnedSOL =
                          Add(e.cumulativeSellReturnedSOL, returned),
                      !.sellMarketCap = sellMcap]
        final == IF closesPosition(remaining) THEN closeEntry(updated, now)
                 ELSE updated
    IN  IF idx = 0 THEN [s |-> s, res |-> "PositionNotFound"]
        ELSE IF notOpen(e) THEN [s |-> s, res |-> "PositionClosed"]
        ELSE IF ~IsPos(sellAmountSOL) \/ Lt(e.solInvested, sellAmountSOL)
        THEN [s |-> s, res |-> "InvalidSellAmount"]
        ELSE [s |-> [s EXCEPT !.balance = Add(s.balance, returned),
                              !.entries[idx] = final],
              res |-> "ok"]

\* baseToSell > entry.solInvested + tolerance, line 558
exceedsPosition(baseToSell, solInvested) ==
    LET d == Sub(baseToSell, solInvested)
    IN  d[1] > 0 /\ SellTolInv > d[2] \div d[1]

\* the Confirm Sell handler, lines 551-561: its own checks, then the two
\* updaters updateCurrentMcap and partialSell, applied one after the other
confirmSell(s, id, m, val, now) ==
    LET entry == s.entries[findIndex(s.entries, id)]
        mult == Div(m, entry.entryMarketCap)
        baseToSell == Div(val, mult)
        marked == updateCurrentMcap(s, id, m).s
        sold == partialSell(marked, id, m, baseToSell, now)
    IN  IF ~isFinitePos(m)
        THEN [s |-> s, res |-> "InvalidMark", committed |-> FALSE]
        ELSE IF ~isFinitePos(val)
        THEN [s |-> s, res |-> "InvalidSellAmount", committed |-> FALSE]
        ELSE IF exceedsPosition(baseToSell, entry.solInvested)
        THEN [s |-> s, res |-> "InvalidSellAmount", committed |-> FALSE]
        ELSE [s |-> sold.s, res |-> sold.res, committed |-> TRUE]

belowZero_unchecked(next) == FALSE

belowZero_orZero(next) == next[1] <= 0

\* next < 0 of line 296
belowZero(next) == next[1] < 0

adjustBalance_twice(s, delta) ==
    LET next == Add(s.balance, Add(delta, delta))
    IN  IF belowZero(next) THEN [s |-> s, res |-> "NegativeBalance"]
        ELSE [s |-> [s EXCEPT !.balance = next], res |-> "ok"]

\* adjustBalance, lines 293-301
adjustBalance(s, delta) ==
    LET next == Add(s.balance, delta)
    IN  IF belowZero(next) THEN [s |-> s, res |-> "NegativeBalance"]
        ELSE [s |-> [s EXCEPT !.balance = next], res |-> "ok"]

\* resetAll, lines 303-306
resetAll == [s |-> Uninitialized, res |-> "ok"]

\* the onReset updater of line 416
clearSeries(s) == [s |-> [s EXCEPT !.history = <<>>], res |-> "ok"]

snapshotEffect_balanceOnly(old, new, newArray, now) ==
    IF new.startingBalance # None /\ new.balance # old.balance
    THEN pushHistoryPoint(new, now).s
    ELSE new

snapshotEffect_unguarded(old, new, newArray, now) ==
    IF newArray \/ new.balance # old.balance
    THEN pushHistoryPoint(new, now).s
    ELSE new

\* the snapshot effect, lines 134-137: it runs after a commit that changed
\* state.balance or replaced the state.entries array
snapshotEffect(old, new, newArray, now) ==
    IF new.startingBalance # None /\ (newArray \/ new.balance # old.balance)
    THEN pushHistoryPoint(new, now).s
    ELSE new

(***************************************************************************)
(* The state machine.                                                      *)
(*   state  the AppState of useState (line 91)                             *)
(*   track  per id, the history of the position: the sums of mark*amount   *)
(*          and of amount over its opening buy and its BuyMore calls, their *)
(*          number, the least and greatest mark used, whether only buys    *)
(*          (and marks) touched it, and whether a revision overwrote its   *)
(*          entryMarketCap                                                 *)
(*   last   the last user action: its operation, its outcome, the id it    *)
(*          named and, when it was accepted, its other arguments           *)
(*   ops    the number of accepted actions of the session; also its clock  *)
(*   store  the item of localStorage under STORAGE_KEY (line 33)            *)
(*   writable  whether localStorage.setItem succeeds (it throws when the    *)
(*          quota is exceeded)                                              *)
(***************************************************************************)
Args(id, mark, amount, name) ==
    [id |-> id, mark |-> mark, amount |-> amount, name |-> name]

NoArgs == Args(0, None, None, NoName)

NoTrack ==
    [sumMarkAmount |-> Zero, sumAmount |-> Zero, buys |-> 0,
     loMark |-> Zero, hiMark |-> Zero,
     onlyBuys |-> FALSE, avgEdited |-> FALSE]

\* what React does with an updater's result: a returned `s` is no change;
\* a new state is committed and the effects run, the snapshot effect (134-137)
\* and the save effect (92), which stores the state they end in
Commit(op, args, r, newArray) ==
    /\ r.res = "ok" => ops < MaxOps
    /\ state' = IF r.res = "ok"
                THEN snapshotEffect(state, r.s, newArray, ops + 1) ELSE r.s
    /\ last' = [op |-> op, res |-> r.res,
                args |-> IF r.res = "ok" THEN args
                         ELSE Args(args.id, None, None, NoName)]
    /\ ops' = IF r.res = "ok" THEN ops + 1 ELSE ops
    /\ store' = IF r.res = "ok" THEN saveState(store, state', writable)
                ELSE store
    /\ UNCHANGED writable

\* the first mount finds no stored item (line 63); the save effect of line 92
\* then stores the state
Init ==
    /\ state = Uninitialized
    /\ store = stringify(Uninitialized)
    /\ writable = TRUE
    /\ track = [i \in Ids |-> NoTrack]
    /\ last = [op |-> "Load", res |-> "ok", args |-> NoArgs]
    /\ ops = 0

Initialized == state.startingBalance # None

\* the entry an id names, or None
EntryOf(s, id) ==
    LET idx == findIndex(s.entries, id)
    IN  IF idx = 0 THEN None ELSE s.entries[idx]

HasEntry(s, id) == findIndex(s.entries, id) # 0

\* StartingBalanceForm, rendered only while startingBalance === null (318-331)
InitializeSession(n) ==
    /\ ~Initialized
    /\ state' = snapshotEffect(state, setStartingBalance(n).s, TRUE, 0)
    /\ last' = [op |-> "InitializeSession", res |-> "ok",
                args |-> Args(0, None, n, NoName)]
    /\ ops' = 0
    /\ track' = [i \in Ids |-> NoTrack]
    /\ store' = saveState(store, state', writable)
    /\ UNCHANGED writable

OpenPosition(name, mark, amount) ==
    LET r == addEntry(state, [name |-> name, entryMarketCap |-> mark,
                              solInvested |-> amount])
    IN  /\ Initialized
        /\ state.nextId <= MaxPositions
        /\ Commit("OpenPosition", Args(state.nextId, mark, amount, name), r, TRUE)
        /\ track' = IF r.res = "ok"
                    THEN [track EXCEPT ![state.nextId] =
                            [sumMarkAmount |-> Mul(mark, amount),
                             sumAmount |-> amount, buys |-> 0,
                             loMark |-> mark, hiMark |-> mark,
                             onlyBuys |-> TRUE, avgEdited |-> FALSE]]
                    ELSE track

MarkPosition(id, mark) ==
    /\ Initialized
    /\ Commit("MarkPosition", Args(id, mark, None, NoName),
              updateCurrentMcap(state, id, mark), TRUE)
    /\ UNCHANGED track

ReviseOpenPosition(id, updates) ==
    LET r == editEntry(state, id, updates)
        idx == findIndex(state.entries, id)
    IN  /\ Initialized
        /\ Commit("ReviseOpenPosition",
                  Args(id, updates.entryMarketCap, updates.solInvested,
                       updates.name), r, TRUE)
        /\ track' = IF r.res = "ok"
                    THEN [track EXCEPT
                            ![id].onlyBuys = @ /\
                                r.s.entries[idx].entryMarketCap =
                                    state.entries[idx].entryMarketCap /\
                                r.s.entries[idx].solInvested =
                                    state.entries[idx].solInvested,
                            ![id].avgEdited = @ \/
                                r.s.entries[idx].entryMarketCap #
                                    state.entries[idx].entryMarketCap]
                    ELSE track

BuyMore(id, mark, amount) ==
    LET r == buyMore(state, id, mark, amount)
    IN  /\ Initialized
        /\ Commit("BuyMore", Args(id, mark, amount, NoName), r, TRUE)
        /\ track' = IF r.res = "ok"
                    THEN [track EXCEPT
                            ![id].sumMarkAmount = Add(@, Mul(mark, amount)),
                            ![id].sumAmount = Add(@, amount),
                            ![id].buys = @ + 1,
                            ![id].loMark = MinR(@, mark),
                            ![id].hiMark = MaxR(@, mark)]
                    ELSE track

PartialSell(id, mark, amount) ==
    LET r == partialSell(state, id, mark, amount, ops + 1)
    IN  /\ Initialized
        /\ Commit("PartialSell", Args(id, mark, amount, NoName), r, TRUE)
        /\ track' = IF r.res = "ok"
                    THEN [track EXCEPT ![id].onlyBuys = FALSE]
                    ELSE track

\* the sell modal is opened from the card of an open entry (lines 494-495);
\* both updaters of the handler are committed together, then the effects run
ConfirmSell(id, m, val) ==
    LET r == confirmSell(state, id, m, val, ops + 1)
    IN  /\ Initialized
        /\ HasEntry(state, id)
        /\ EntryOf(state, id).status = "open"
        /\ r.committed => ops < MaxOps
        /\ state' = IF r.committed
                    THEN snapshotEffect(state, r.s, TRUE, ops + 1) ELSE r.s
        /\ last' = [op |-> "ConfirmSell", res |-> r.res,
                    args |-> IF r.res = "ok" THEN Args(id, m, val, NoName)
                             ELSE Args(id, None, None, NoName)]
        /\ ops' = IF r.committed THEN ops + 1 ELSE ops
        /\ store' = IF r.committed THEN saveState(store, state', writable)
                    ELSE store
        /\ UNCHANGED writable
        /\ track' = IF r.res = "ok"
                    THEN [track EXCEPT ![id].onlyBuys = FALSE]
                    ELSE track

AdjustBalance(delta) ==
    /\ Initialized
    /\ Commit("AdjustBalance", Args(0, None, delta, NoName),
              adjustBalance(state, delta), FALSE)
    /\ UNCHANGED track

ResetSession ==
    /\ Initialized
    /\ state' = snapshotEffect(state, resetAll.s, TRUE, 0)
    /\ last' = [op |-> "ResetSession", res |-> "ok", args |-> NoArgs]
    /\ ops' = 0
    /\ track' = [i \in Ids |-> NoTrack]
    /\ store' = saveState(NoItem, state', writable)
    /\ UNCHANGED writable

ClearSeries ==
    /\ Initialized
    /\ Commit("ClearSeries", Args(0, None, None, NoName), clearSeries(state), FALSE)
    /\ UNCHANGED track

\* a reload of the page: the component mounts on loadState() (line 91), the
\* snapshot effect runs as on a first mount (134-137) and the save effect
\* stores the result (92)
Load ==
    LET loaded == loadState(store)
        r == IF loaded.startingBalance # None
             THEN pushHistoryPoint(loaded, ops + 1)
             ELSE [s |-> loaded, res |-> "same"]
    IN  /\ r.res = "ok" => ops < MaxOps
        /\ state' = r.s
        /\ last' = [op |-> "Load", res |-> "ok", args |-> NoArgs]
        /\ ops' = IF r.res = "ok" THEN ops + 1 ELSE ops
        /\ store' = saveState(store, state', writable)
        /\ UNCHANGED <<track, writable>>

\* "Add point now" of the graph modal, line 415
RecordIfChanged ==
    /\ Initialized
    /\ Commit("RecordIfChanged", Args(0, None, None, NoName),
              pushHistoryPoint(state, ops + 1), FALSE)
    /\ UNCHANGED track

InvestedOf(id) ==
    LET idx == findIndex(state.entries, id)
    IN  IF idx = 0 THEN Num(1) ELSE state.entries[idx].solInvested

AvgOf(id) ==
    LET idx == findIndex(state.entries, id)
    IN  IF idx = 0 THEN Num(1000) ELSE state.entries[idx].entryMarketCap

\* sells: at each mark a part and all; at the average entry mark, all but a
\* residue of epsilon (tried while the balance is a whole number, which keeps
\* the numerators within TLC's 32-bit integers); and the amounts the engine
\* refuses, nothing and more than is invested
SellInputs(id) ==
    (SellMarks \X {Num(1), InvestedOf(id)})
    \cup (IF state.balance[2] = 1
          THEN {<<AvgOf(id), Sub(InvestedOf(id), Eps)>>} ELSE {})
    \cup ({Num(3000)} \X {Zero, Add(InvestedOf(id), Num(1))})

\* value-based sells: the whole value at a mark ("Sell All"), nothing, more
\* than the position is worth, and, at the average entry mark of a position of
\* at most 2, a value that exceeds the position by no more than the tolerance
ValueInputs(id) ==
    LET worth == Mul(InvestedOf(id), Div(Num(3000), AvgOf(id)))
    IN  ({Num(3000)} \X {worth, Zero, Add(worth, Num(1))})
        \cup (IF InvestedOf(id)[2] = 1 /\ InvestedOf(id)[1] \in 1..2
              THEN {<<AvgOf(id), Add(InvestedOf(id), Hair)>>} ELSE {})

\* a withdrawal of the whole balance
WithdrawAll == IF IsPos(state.balance) THEN {Neg(state.balance)} ELSE {}

\* the ids the actions name: those of the ledger and the first unused one
TargetIds == {i \in Ids : i <= state.nextId}

ReviseInputs ==
    {[name |-> NoName, entryMarketCap |-> Num(3000), solInvested |-> None],
     [name |-> NoName, entryMarketCap |-> None, solInvested |-> Zero],
     [name |-> "Y", entryMarketCap |-> None, solInvested |-> Num(3)],
     [name |-> "Y", entryMarketCap |-> Num(3000), solInvested |-> Num(30)]}

Next ==
    \/ \E n \in StartAmounts : InitializeSession(n)
    \/ \E m \in OpenMarks, a \in BuyAmounts : OpenPosition("X", m, a)
    \/ \E id \in TargetIds, m \in NewMarks : MarkPosition(id, m)
    \/ \E id \in TargetIds, u \in ReviseInputs : ReviseOpenPosition(id, u)
    \/ \E id \in TargetIds, m \in BuyMarks, a \in BuyAmounts : BuyMore(id, m, a)
    \/ \E id \in TargetIds : \E i \in SellInputs(id) : PartialSell(id, i[1], i[2])
    \/ \E id \in TargetIds : \E i \in ValueInputs(id) : ConfirmSell(id, i[1], i[2])
    \/ \E d \in Deltas \cup WithdrawAll : AdjustBalance(d)
    \/ ResetSession
    \/ ClearSeries
    \/ RecordIfChanged
    \/ Load

Spec == Init /\ [][Next]_vars

(***************************************************************************)
(* The host.  Spec runs the application where every write to localStorage  *)
(* succeeds, nothing else writes the item and the amounts are exact in     *)
(* binary64.  HostSpec lets another writer change the item and opens a     *)
(* position of 0.1, whose full value at three times its entry mark is not  *)
(* exact in binary64; QuotaSpec lets setItem throw.                        *)
(***************************************************************************)
Without(doc, keys) == [k \in DOMAIN doc \ keys |-> doc[k]]

StateKeys == {"startingBalance", "balance", "entries", "nextId", "history"}

\* what localStorage.getItem (line 62) can find in place of a document the
\* application stored: nothing, text that is not JSON, and the document of
\* an older or a damaged shape
StoredItems(doc) ==
    IF DOMAIN doc # StateKeys THEN {}
    ELSE {NoItem, NotJson,
          Without(doc, {"balance"}), [doc EXCEPT !.balance = Null],
          Without(doc, {"entries"}),
          Without(doc, {"history"}), Without(doc, {"nextId"}),
          Without(doc, {"history", "nextId"}),
          Without(doc, {"startingBalance"})}

StorageChanged(raw) ==
    /\ store' = raw
    /\ last' = [op |-> "StorageChanged", res |-> "ok", args |-> NoArgs]
    /\ UNCHANGED <<state, track, ops, writable>>

\* from here on localStorage.setItem throws (line 57)
StorageFills ==
    /\ writable
    /\ writable' = FALSE
    /\ last' = [op |-> "StorageFills", res |-> "ok", args |-> NoArgs]
    /\ UNCHANGED <<state, track, ops, store>>

StorageFrees ==
    /\ ~writable
    /\ writable' = TRUE
    /\ last' = [op |-> "StorageFrees", res |-> "ok", args |-> NoArgs]
    /\ UNCHANGED <<state, track, ops, store>>

Tenth == <<1, 10>>

\* the positions and multipliers whose full value is tabulated below
Tabulated(solInvested, multiplier) ==
    /\ solInvested \in {Tenth, Num(1), Num(2), Num(10)}
    /\ multiplier \in {Num(1), Num(3)}

\* binary64: 0.1 * 3 is 0.30000000000000004 and 0.30000000000000004 / 3 is
\* 0.10000000000000002, the double above 0.1; the products of 1, 2 and 10
\* with 1 and 3, and 0.1 * 1, are exact and divide back exactly
roundsUp(solInvested, multiplier) ==
    solInvested = Tenth /\ multiplier = Num(3)

\* currentValue of the sell modal, lines 496-498.  Where binary64 rounds up,
\* the value carries the excess that the division of line 557 turns into one
\* Hair over the position (the model's smallest step, as for SellTolInv)
currentValue(entry, mcapNum) ==
    LET multiplier == IF isFinitePos(mcapNum)
                      THEN Div(mcapNum, entry.entryMarketCap) ELSE Zero
    IN  IF ~IsPos(multiplier) THEN Zero
        ELSE IF roundsUp(entry.solInvested, multiplier)
        THEN Mul(Add(entry.solInvested, Hair), multiplier)
        ELSE Mul(entry.solInvested, multiplier)

\* "Sell All" (line 540) fills the amount with String(currentValue), which
\* Number reads back unchanged; then Confirm Sell (lines 551-561)
SellAll(id, m) ==
    LET entry == EntryOf(state, id)
        r == confirmSell(state, id, m, currentValue(entry, m), ops + 1)
    IN  /\ Initialized
        /\ HasEntry(state, id)
        /\ entry.status = "open"
        /\ Tabulated(entry.solInvested, Div(m, entry.entryMarketCap))
        /\ r.committed => ops < MaxOps
        /\ state' = IF r.committed
                    THEN snapshotEffect(state, r.s, TRUE, ops + 1) ELSE r.s
        /\ last' = [op |-> "SellAll", res |-> r.res,
                    args |-> Args(id, m, currentValue(entry, m), NoName)]
        /\ ops' = IF r.committed THEN ops + 1 ELSE ops
        /\ store' = IF r.committed THEN saveState(store, state', writable)
                    ELSE store
        /\ track' = IF r.res = "ok"
                    THEN [track EXCEPT ![id].onlyBuys = FALSE]
                    ELSE track
        /\ UNCHANGED writable

HostNext ==
    \/ \E n \in StartAmounts : InitializeSession(n)
    \/ \E a \in {Tenth, Num(2)} : OpenPosition("X", Num(1000), a)
    \/ \E id \in TargetIds, m \in SellMarks : SellAll(id, m)
    \/ ResetSession
    \/ Load
    \/ \E raw \in StoredItems(store) : StorageChanged(raw)

HostSpec == Init /\ [][HostNext]_vars

QuotaNext ==
    \/ \E n \in StartAmounts : InitializeSession(n)
    \/ \E m \in OpenMarks, a \in BuyAmounts : OpenPosition("X", m, a)
    \/ \E id \in TargetIds : \E i \in SellInputs(id) : PartialSell(id, i[1], i[2])
    \/ \E d \in Deltas : AdjustBalance(d)
    \/ ResetSession
    \/ ClearSeries
    \/ Load
    \/ StorageFills
    \/ StorageFrees

QuotaSpec == Init /\ [][QuotaNext]_vars

\* OverrideSpec: the edit form used as the manual override it is: it sets the
\* average entry mark and the invested amount together (line 460), here to
\* three times the mark of the opening buy and to more or less than was bought
OverrideInputs ==
    {[name |-> "Y", entryMarketCap |-> Num(3000), solInvested |-> Num(6)],
     [name |-> "Y", entryMarketCap |-> Num(3000), solInvested |-> Num(1)]}

OverrideNext ==
    \/ \E n \in StartAmounts : InitializeSession(n)
    \/ \E m \in OpenMarks, a \in BuyAmounts : OpenPosition("X", m, a)
    \/ \E id \in TargetIds, u \in OverrideInputs : ReviseOpenPosition(id, u)
    \/ \E id \in TargetIds, m \in BuyMarks, a \in BuyAmounts : BuyMore(id, m, a)
    \/ \E id \in TargetIds : \E i \in SellInputs(id) : PartialSell(id, i[1], i[2])

OverrideSpec == Init /\ [][OverrideNext]_vars

(***************************************************************************)
(* Claims.                                                                 *)
(***************************************************************************)
Accepted(op) == last'.op = op /\ last'.res = "ok"

Traded == Accepted("OpenPosition") \/ Accepted("BuyMore") \/ Accepted("PartialSell")

SetOf(seq) == {seq[i] : i \in 1..Len(seq)}

\* C1: in every reachable state the balance is not negative.
C1_BalanceNonNegative == state.balance[1] >= 0

\* a withdrawal was refused at balance 0
C1_Witness ==
    /\ last.op = "AdjustBalance" /\ last.res = "NegativeBalance"
    /\ state.balance = Zero

\* C2: an accepted OpenPosition or BuyMore lowers the balance by exactly the buy
\* amount, and an accepted PartialSell raises it by exactly
\* sellAmount * sellMark / averageEntryMark, the average taken before the sell.
C2_CashMovesByTradedAmount ==
    [][/\ (Accepted("OpenPosition") \/ Accepted("BuyMore"))
            => Sub(state.balance, state'.balance) = last'.args.amount
       /\ Accepted("PartialSell")
            => Sub(state'.balance, state.balance) =
                   Mul(last'.args.amount,
                       Div(last'.args.mark,
                           EntryOf(state, last'.args.id).entryMarketCap))]_vars

\* a sell at a mark other than the average entry mark and other than the last
\* observed mark was accepted
C2_Witness ==
    /\ last.op = "PartialSell" /\ last.res = "ok"
    /\ EntryOf(state, last.args.id).entryMarketCap # last.args.mark
    /\ EntryOf(state, last.args.id).entryMarketCap = Num(1500)

\* balance plus the value of the open positions, position id valued at mark
RECURSIVE SumValueAt(_, _, _)
SumValueAt(entries, id, mark) ==
    IF entries = <<>> THEN Zero
    ELSE LET e == Head(entries)
         IN  Add(IF e.status # "open" THEN Zero
                 ELSE IF e.id = id
                      THEN Mul(e.solInvested, Div(mark, e.entryMarketCap))
                      ELSE entryValue(e),
                 SumValueAt(Tail(entries), id, mark))

WorthAt(s, id, mark) == Add(s.balance, SumValueAt(s.entries, id, mark))

\* C3: across every accepted OpenPosition, BuyMore and PartialSell, balance plus
\* the mark-to-market value of the open positions, the traded position valued
\* at the transaction's mark before and after, does not change.
C3_MarkToMarketConserved ==
    [][Traded => WorthAt(state', last'.args.id, last'.args.mark) =
                 WorthAt(state, last'.args.id, last'.args.mark)]_vars

\* C4: as long as a position has seen only its opening buy and BuyMore calls,
\* its averageEntryMark is the capital-weighted average of that buy history,
\* (m0*a0 + sum m_i*a_i) / (a0 + sum a_i).
C4_AverageIsCapitalWeighted ==
    \A e \in SetOf(state.entries) :
        track[e.id].onlyBuys =>
            e.entryMarketCap =
                Div(track[e.id].sumMarkAmount, track[e.id].sumAmount)

\* a position after two BuyMore calls at different marks
C4_Witness ==
    \E e \in SetOf(state.entries) :
        /\ track[e.id].onlyBuys
        /\ track[e.id].buys >= 2
        /\ track[e.id].loMark # track[e.id].hiMark

\* C5: the averageEntryMark of a position lies between the least and the
\* greatest mark used by its opening buy and its BuyMore calls (checked for
\* every position whose average was not overwritten by a revision, sells and
\* size revisions in between included).
C5_AverageWithinMarks ==
    \A e \in SetOf(state.entries) :
        ~track[e.id].avgEdited =>
            /\ Le(track[e.id].loMark, e.entryMarketCap)
            /\ Le(e.entryMarketCap, track[e.id].hiMark)

\* a position bought at two different marks whose average lies strictly between
C5_Witness ==
    \E e \in SetOf(state.entries) :
        /\ ~track[e.id].avgEdited
        /\ track[e.id].buys >= 1
        /\ Lt(track[e.id].loMark, e.entryMarketCap)
        /\ Lt(e.entryMarketCap, track[e.id].hiMark)

\* C6: for every position, investedAmount = 0 exactly when it is closed.
C6_ZeroIffClosed ==
    \A e \in SetOf(state.entries) : (e.solInvested = Zero) <=> (e.status = "sold")

\* C7: an accepted PartialSell that leaves remaining <= epsilon closes the open
\* position in that step with investedAmount exactly 0; one that leaves more
\* keeps it open with investedAmount = remaining.
C7_ClosureRule ==
    [][Accepted("PartialSell") =>
        LET e == EntryOf(state, last'.args.id)
            after == EntryOf(state', last'.args.id)
            remaining == Sub(e.solInvested, last'.args.amount)
        IN  /\ e.status = "open"
            /\ IF Le(remaining, Eps)
               THEN after.status = "sold" /\ after.solInvested = Zero
               ELSE after.status = "open" /\ after.solInvested = remaining]_vars

\* a sell that left a residue of epsilon closed the position
C7_Witness ==
    /\ last.op = "PartialSell" /\ last.res = "ok"
    /\ last.args.amount[2] = Eps[2]
    /\ EntryOf(state, last.args.id).status = "sold"
    /\ EntryOf(state, last.args.id).solInvested = Zero

\* C8: on a closed position every BuyMore, PartialSell and ReviseOpenPosition
\* is rejected and changes nothing, and the position stays closed (until the
\* session is reset).
C8_ClosedIsTerminal ==
    [][\A e \in SetOf(state.entries) :
        e.status = "sold" =>
            /\ (/\ last'.op \in {"BuyMore", "PartialSell", "ReviseOpenPosition"}
                /\ last'.args.id = e.id)
                => last'.res = "PositionClosed" /\ state' = state
            /\ last'.op \notin {"InitializeSession", "ResetSession"}
                => /\ HasEntry(state', e.id)
                   /\ EntryOf(state', e.id).status = "sold"]_vars

\* a BuyMore on a closed position was rejected
C8_Witness ==
    /\ last.op = "BuyMore" /\ last.res = "PositionClosed"
    /\ EntryOf(state, last.args.id).status = "sold"

\* C9: no MarkPosition changes the lastObservedMark of a closed position.
C9_ClosedMarkFrozen ==
    [][\A e \in SetOf(state.entries) :
        (e.status = "sold" /\ last'.op = "MarkPosition") =>
            /\ HasEntry(state', e.id)
            /\ EntryOf(state', e.id).currentMarketCap = e.currentMarketCap]_vars

\* what the engine must refuse in state s, and leave s as it is
RefusesWithoutChange(s) ==
    /\ \A m \in OpenMarks, a \in BuyAmounts :
        Lt(s.balance, a) =>
            addEntry(s, [name |-> "X", entryMarketCap |-> m, solInvested |-> a])
                = [s |-> s, res |-> "InsufficientBalance"]
    /\ \A id \in Ids, m \in BuyMarks, a \in BuyAmounts :
        (~HasEntry(s, id) \/ Lt(s.balance, a)) =>
            buyMore(s, id, m, a).s = s /\ buyMore(s, id, m, a).res # "ok"
    /\ \A id \in Ids : \A i \in SellInputs(id) :
        (\/ ~HasEntry(s, id)
         \/ ~IsPos(i[2])
         \/ Lt(EntryOf(s, id).solInvested, i[2])) =>
            /\ partialSell(s, id, i[1], i[2], ops + 1).s = s
            /\ partialSell(s, id, i[1], i[2], ops + 1).res # "ok"
    /\ \A id \in Ids, u \in ReviseInputs :
        (\/ ~HasEntry(s, id)
         \/ /\ u.solInvested # None
            /\ Lt(s.balance, Sub(u.solInvested, EntryOf(s, id).solInvested))) =>
            editEntry(s, id, u).s = s /\ editEntry(s, id, u).res # "ok"
    /\ \A id \in Ids, m \in NewMarks :
        ~HasEntry(s, id) =>
            updateCurrentMcap(s, id, m) = [s |-> s, res |-> "PositionNotFound"]

\* C10: every rejected operation of the engine leaves the whole ledger state unchanged, and
\* the engine rejects a buy above the balance, a sell of nothing or of more than
\* is invested, an unknown id, and a revision whose increase exceeds the balance
\* (its name and averageEntryMark updates are then not applied either).
C10_RejectionLeavesStateUnchanged ==
    /\ [](Initialized => RefusesWithoutChange(state))
    /\ [][(last'.res # "ok" /\ last'.op # "ConfirmSell")
            => state' = state /\ track' = track]_vars

\* a revision carrying a new name, a new average and too large an increase was
\* rejected, and the position still has its old name
C10_Witness ==
    /\ last.op = "ReviseOpenPosition" /\ last.res = "InsufficientBalance"
    /\ EntryOf(state, last.args.id).name = "X"
    /\ EntryOf(state, last.args.id).entryMarketCap # Num(3000)

\* C11: a Confirm Sell action that ends in a rejection leaves the state as it
\* was: no field of the position, lastObservedMark included, has changed.
C11_RejectedValueSellUntouched ==
    [][(last'.op = "ConfirmSell" /\ last'.res # "ok") => state' = state]_vars

\* C12: in every reachable state the averageEntryMark of every position is
\* greater than 0, also after a BuyMore on a position whose investedAmount was
\* revised to 0.
C12_AveragePositive ==
    \A e \in SetOf(state.entries) : IsPos(e.entryMarketCap)

\* a BuyMore was accepted on a position whose investedAmount had been revised
\* to 0: all that is invested is this buy, and the average is its mark
C12_Witness ==
    /\ last.op = "BuyMore" /\ last.res = "ok"
    /\ EntryOf(state, last.args.id).solInvested = last.args.amount
    /\ Lt(last.args.amount, EntryOf(state, last.args.id).cumulativeBuySOL)
    /\ EntryOf(state, last.args.id).cumulativeSellAmount = Zero
    /\ EntryOf(state, last.args.id).entryMarketCap = last.args.mark
    /\ last.args.mark = Num(2000)

\* C13: for every closed position finalPnlPercent = finalPnl / cumulativeBought
\* * 100 when cumulativeBought > 0, and 0 when cumulativeBought = 0.
C13_FinalPnlPercent ==
    \A e \in SetOf(state.entries) :
        e.status = "sold" =>
            e.pnlPercent = IF IsPos(e.cumulativeBuySOL)
                           THEN Mul(Div(e.pnl, e.cumulativeBuySOL), Num(100))
                           ELSE Zero

\* a position closed with a gain after more than one buy
C13_Witness ==
    \E e \in SetOf(state.entries) :
        /\ e.status = "sold"
        /\ IsPos(e.pnl)
        /\ track[e.id].buys >= 1

\* the fields of the close branch
ClosureFields(e) == <<e.solReturned, e.pnl, e.pnlPercent, e.soldAt>>

\* the final mark is the mark of the last sell
FinalOf(e) == <<e.sellMarketCap, ClosureFields(e)>>

ScenarioA ==
    /\ state.startingBalance = Num(10) /\ ops = 1
    /\ last = [op |-> "OpenPosition", res |-> "ok",
               args |-> Args(1, Num(1000), Num(2), "X")]

\* scenario B: scenario A, then BuyMore(1, 2000, 2)
ScenarioB ==
    /\ state.startingBalance = Num(10) /\ ops = 2
    /\ last = [op |-> "BuyMore", res |-> "ok",
               args |-> Args(1, Num(2000), Num(2), NoName)]
    /\ EntryOf(state, 1).cumulativeBuySOL = Num(4)

\* the step PartialSell(1, 3000, 4) of scenario C
SellOfScenarioC ==
    /\ ScenarioB
    /\ Accepted("PartialSell")
    /\ last'.args = Args(1, Num(3000), Num(4), NoName)

\* what scenario C yields, but for finalPnlPercent
ResultC(s) ==
    /\ s.balance = Num(14)
    /\ Sub(s.balance, state.balance) = Num(8)
    /\ EntryOf(s, 1).status = "sold"
    /\ EntryOf(s, 1).solInvested = Zero
    /\ EntryOf(s, 1).solReturned = Num(8)
    /\ EntryOf(s, 1).realizedPnl = Num(4)
    /\ EntryOf(s, 1).pnl = Num(4)

\* C15 as stated: after InitializeSession(10), OpenPosition("X", 1000, 2) and
\* BuyMore(1, 2000, 2), PartialSell(1, 3000, 4) yields proceeds 8, realized 4,
\* investedAmount 0, status closed, finalPnl 4, balance 14, and
\* finalPnlPercent = 4/6*100.
C15_ScenarioC_AsStated ==
    [][SellOfScenarioC =>
        /\ ResultC(state')
        /\ EntryOf(state', 1).pnlPercent = Mul(Div(Num(4), Num(6)), Num(100))]_vars

\* C15 amended: the same, with finalPnlPercent = 4/4*100 = 100, the realized
\* gain over the cumulativeBought of 4.
C15_ScenarioC ==
    [][SellOfScenarioC =>
        /\ ResultC(state')
        /\ EntryOf(state', 1).pnlPercent = Num(100)]_vars

\* the state scenario C ends in
C15_Witness ==
    /\ state.startingBalance = Num(10) /\ ops = 3
    /\ last = [op |-> "PartialSell", res |-> "ok",
               args |-> Args(1, Num(3000), Num(4), NoName)]
    /\ EntryOf(state, 1).entryMarketCap = Num(1500)
    /\ EntryOf(state, 1).status = "sold"

\* C16: scenario A gives balance 8, investedAmount 2 and averageEntryMark
\* 1000; BuyMore(1, 2000, 2) then gives averageEntryMark 1500, investedAmount
\* 4 and balance 6.
C16_ScenariosAB ==
    /\ [](ScenarioA =>
            /\ state.balance = Num(8)
            /\ EntryOf(state, 1).solInvested = Num(2)
            /\ EntryOf(state, 1).entryMarketCap = Num(1000))
    /\ [][(/\ ScenarioA
           /\ Accepted("BuyMore")
           /\ last'.args = Args(1, Num(2000), Num(2), NoName)) =>
            /\ EntryOf(state', 1).entryMarketCap = Num(1500)
            /\ EntryOf(state', 1).solInvested = Num(4)
            /\ state'.balance = Num(6)]_vars

\* the state scenario B ends in
C16_Witness == ScenarioB /\ Len(state.entries) = 1

\* C17: the ids of the ledger are pairwise distinct and less than nextId;
\* nextId is 1 when the session starts, grows by exactly 1 with every accepted
\* OpenPosition, whose position gets the previous nextId, and is changed by no
\* other operation of the session, a rejected OpenPosition included.
C17_NextIdCounts ==
    /\ [](/\ Cardinality({e.id : e \in SetOf(state.entries)}) = Len(state.entries)
          /\ \A e \in SetOf(state.entries) : e.id < state.nextId
          /\ (~Initialized \/ last.op \in {"InitializeSession", "ResetSession"})
                => state.nextId = 1)
    /\ [][last'.op \notin {"InitializeSession", "ResetSession"} =>
            IF Accepted("OpenPosition")
            THEN /\ state'.nextId = state.nextId + 1
                 /\ Head(state'.entries).id = state.nextId
            ELSE state'.nextId = state.nextId]_vars

\* an OpenPosition was rejected after one was accepted: no id was consumed
C17_Witness ==
    /\ last.op = "OpenPosition" /\ last.res = "InsufficientBalance"
    /\ state.nextId = 2
    /\ Len(state.entries) = 1

\* C18: OpenPosition succeeds whenever amount <= balance, amount = balance
\* included, and fails only when amount > balance; when it succeeds it puts
\* exactly one new position in the ledger, open, with averageEntryMark =
\* lastObservedMark = entryMark, investedAmount = cumulativeBought = amount,
\* the cumulative sell fields and the realized gain 0 and the previous nextId
\* as its id, and leaves every existing position as it was.
C18_OpenPositionCreates ==
    /\ [](Initialized =>
            \A m \in OpenMarks, a \in BuyAmounts \cup {state.balance} :
                IsPos(a) =>
                    LET r == addEntry(state, [name |-> "X", entryMarketCap |-> m,
                                              solInvested |-> a])
                    IN  IF Lt(state.balance, a)
                        THEN r.res = "InsufficientBalance"
                        ELSE r.res = "ok")
    /\ [][Accepted("OpenPosition") =>
            LET n == Head(state'.entries)
            IN  /\ Le(last'.args.amount, state.balance)
                /\ Tail(state'.entries) = state.entries
                /\ n.id = state.nextId
                /\ n.status = "open"
                /\ n.entryMarketCap = last'.args.mark
                /\ n.currentMarketCap = last'.args.mark
                /\ n.solInvested = last'.args.amount
                /\ n.cumulativeBuySOL = last'.args.amount
                /\ n.cumulativeSellAmount = Zero
                /\ n.cumulativeSellReturnedSOL = Zero
                /\ n.realizedPnl = Zero]_vars

\* a position was opened with the whole balance
C18_Witness ==
    /\ last.op = "OpenPosition" /\ last.res = "ok"
    /\ state.balance = Zero
    /\ last.args.amount = state.startingBalance

\* what an accepted PartialSell does to its position, but for investedAmount
SellUpdates(e, f, mark, amount) ==
    LET proceeds == Mul(amount, Div(mark, e.entryMarketCap))
    IN  /\ f.currentMarketCap = mark
        /\ f.sellMarketCap = mark
        /\ f.cumulativeSellAmount = Add(e.cumulativeSellAmount, amount)
        /\ f.cumulativeSellReturnedSOL =
               Add(e.cumulativeSellReturnedSOL, proceeds)
        /\ f.realizedPnl = Add(e.realizedPnl, Sub(proceeds, amount))
        /\ f.entryMarketCap = e.entryMarketCap
        /\ f.cumulativeBuySOL = e.cumulativeBuySOL
        /\ f.id = e.id /\ f.name = e.name

\* every position but id is as it was, and in its place
OthersUnchanged(id) ==
    /\ Len(state'.entries) = Len(state.entries)
    /\ \A i \in 1..Len(state.entries) :
          /\ state'.entries[i].id = state.entries[i].id
          /\ state.entries[i].id # id => state'.entries[i] = state.entries[i]

\* C19 as stated: an accepted PartialSell(id, sellMark, sellAmount) sets
\* lastObservedMark and lastSellMark to sellMark, lowers investedAmount by
\* sellAmount, raises cumulativeSoldUnits by sellAmount, cumulativeSoldProceeds
\* by proceeds and realizedGain by proceeds - sellAmount, and leaves
\* averageEntryMark, cumulativeBought and all other positions unchanged.
C19_SellUpdates_AsStated ==
    [][Accepted("PartialSell") =>
        LET e == EntryOf(state, last'.args.id)
            f == EntryOf(state', last'.args.id)
        IN  /\ SellUpdates(e, f, last'.args.mark, last'.args.amount)
            /\ f.solInvested = Sub(e.solInvested, last'.args.amount)
            /\ OthersUnchanged(e.id)]_vars

\* C19 amended: the same, except that investedAmount becomes exactly 0 when
\* what remains is at most epsilon; the position then becomes closed and gets
\* its closure fields, and otherwise no further field of it changes.
C19_SellUpdates ==
    [][Accepted("PartialSell") =>
        LET e == EntryOf(state, last'.args.id)
            f == EntryOf(state', last'.args.id)
            remaining == Sub(e.solInvested, last'.args.amount)
        IN  /\ SellUpdates(e, f, last'.args.mark, last'.args.amount)
            /\ OthersUnchanged(e.id)
            /\ IF Le(remaining, Eps)
               THEN f.solInvested = Zero /\ f.status = "sold"
               ELSE /\ f.solInvested = remaining
                    /\ f.status = e.status
                    /\ ClosureFields(f) = ClosureFields(e)]_vars

\* a part of a position was sold at a gain while another position exists
C19_Witness ==
    /\ last.op = "PartialSell" /\ last.res = "ok"
    /\ Len(state.entries) = 2
    /\ EntryOf(state, last.args.id).status = "open"
    /\ IsPos(EntryOf(state, last.args.id).realizedPnl)

\* C20: ReviseOpenPosition on an open position never changes lastObservedMark,
\* cumulativeBought, cumulativeSoldUnits, cumulativeSoldProceeds or
\* realizedGain; a revision of investedAmount from old to newValue is rejected
\* exactly when newValue - old > balance, and otherwise sets investedAmount =
\* max(0, newValue) and balance = balance - (newValue - old).
C20_ReviseFrame ==
    /\ [](\A e \in SetOf(state.entries), u \in ReviseInputs :
            (e.status = "open" /\ u.solInvested # None) =>
                (editEntry(state, e.id, u).res = "InsufficientBalance"
                    <=> Lt(state.balance, Sub(u.solInvested, e.solInvested))))
    /\ [][(/\ last'.op = "ReviseOpenPosition"
           /\ HasEntry(state, last'.args.id)
           /\ EntryOf(state, last'.args.id).status = "open") =>
            LET e == EntryOf(state, last'.args.id)
                f == EntryOf(state', last'.args.id)
                newValue == last'.args.amount
            IN  /\ f.currentMarketCap = e.currentMarketCap
                /\ f.cumulativeBuySOL = e.cumulativeBuySOL
                /\ f.cumulativeSellAmount = e.cumulativeSellAmount
                /\ f.cumulativeSellReturnedSOL = e.cumulativeSellReturnedSOL
                /\ f.realizedPnl = e.realizedPnl
                /\ IF last'.res = "ok" /\ newValue # None
                   THEN /\ f.solInvested = MaxR(Zero, newValue)
                        /\ state'.balance =
                               Sub(state.balance, Sub(newValue, e.solInvested))
                   ELSE /\ f.solInvested = e.solInvested
                        /\ state'.balance = state.balance]_vars

\* a revision lowered the investedAmount of a position that had been marked
\* and partly sold, and the balance got the difference back
C20_Witness ==
    /\ last.op = "ReviseOpenPosition" /\ last.res = "ok"
    /\ last.args.amount = Zero
    /\ IsPos(EntryOf(state, last.args.id).cumulativeSellAmount)
    /\ EntryOf(state, last.args.id).solInvested = Zero
    /\ EntryOf(state, last.args.id).status = "open"

\* the prior history is kept, in place, at the front of the new history
IsPrefix(h, g) == Len(h) <= Len(g) /\ \A i \in 1..Len(h) : g[i] = h[i]

\* C21: MarkPosition(id, newMark) changes only the lastObservedMark of the
\* addressed position: the balance, nextId, startingBalance, every other field
\* of that position and every other position are unchanged, and no point of
\* the history is changed; with an unknown id the state is unchanged.
C21_MarkFrame ==
    [][last'.op = "MarkPosition" =>
        IF HasEntry(state, last'.args.id)
        THEN /\ last'.res = "ok"
             /\ EntryOf(state', last'.args.id) =
                    [EntryOf(state, last'.args.id) EXCEPT
                        !.currentMarketCap = last'.args.mark]
             /\ OthersUnchanged(last'.args.id)
             /\ state'.balance = state.balance
             /\ state'.nextId = state.nextId
             /\ state'.startingBalance = state.startingBalance
             /\ IsPrefix(state.history, state'.history)
        ELSE last'.res = "PositionNotFound" /\ state' = state]_vars

\* one of two positions was given a new mark
C21_Witness ==
    /\ last.op = "MarkPosition" /\ last.res = "ok"
    /\ Len(state.entries) = 2
    /\ EntryOf(state, last.args.id).currentMarketCap = last.args.mark
    /\ EntryOf(state, last.args.id).entryMarketCap # last.args.mark

\* C22: AdjustBalance(delta) is rejected, the state unchanged, exactly when
\* balance + delta < 0; otherwise it sets balance to balance + delta (delta =
\* -balance is accepted and gives 0) and changes no position, nextId or
\* existing history point.
C22_AdjustBalance ==
    /\ [](Initialized =>
            \A d \in Deltas \cup {Neg(state.balance),
                                  Sub(Neg(state.balance), Num(1))} :
                LET r == adjustBalance(state, d)
                IN  IF Add(state.balance, d)[1] < 0
                    THEN r = [s |-> state, res |-> "NegativeBalance"]
                    ELSE r.res = "ok")
    /\ [][last'.op = "AdjustBalance" =>
            IF last'.res = "ok"
            THEN /\ state'.balance = Add(state.balance, last'.args.amount)
                 /\ state'.entries = state.entries
                 /\ state'.nextId = state.nextId
                 /\ state'.startingBalance = state.startingBalance
                 /\ IsPrefix(state.history, state'.history)
            ELSE state' = state]_vars

\* the whole balance was withdrawn while a position exists
C22_Witness ==
    /\ last.op = "AdjustBalance" /\ last.res = "ok"
    /\ IsPos(Neg(last.args.amount))
    /\ state.balance = Zero
    /\ Len(state.entries) >= 1

\* C23: cumulativeBought, cumulativeSoldUnits and cumulativeSoldProceeds of a
\* position never decrease while the session lasts.
C23_CumulativesMonotone ==
    [][\A e \in SetOf(state.entries) :
        HasEntry(state', e.id) =>
            LET f == EntryOf(state', e.id)
            IN  /\ Le(e.cumulativeBuySOL, f.cumulativeBuySOL)
                /\ Le(e.cumulativeSellAmount, f.cumulativeSellAmount)
                /\ Le(e.cumulativeSellReturnedSOL,
                      f.cumulativeSellReturnedSOL)]_vars

\* a position was bought again: its cumulativeBought is more than the buy
C23_Witness ==
    /\ last.op = "BuyMore" /\ last.res = "ok"
    /\ Lt(last.args.amount, EntryOf(state, last.args.id).cumulativeBuySOL)

\* C24: InitializeSession takes effect only from the uninitialized state; it
\* sets startingBalance = balance = startingAmount and nextId = 1, leaves no
\* position and no point of an earlier history (the snapshot effect records
\* the new session's first point); and between an InitializeSession and the
\* next one a ResetSession has run.
C24_InitializeOnce ==
    /\ [][last'.op = "InitializeSession" =>
            /\ state.startingBalance = None
            /\ state'.startingBalance = last'.args.amount
            /\ state'.balance = last'.args.amount
            /\ state'.entries = <<>>
            /\ state'.nextId = 1
            /\ state'.history = <<[t |-> 0, balance |-> last'.args.amount,
                                   openValue |-> Zero]>>]_vars
    /\ [][Initialized =>
            /\ last'.op # "InitializeSession"
            /\ last'.op # "ResetSession" => state'.startingBalance # None]_vars

\* a session was initialized from the uninitialized state
C24_Witness ==
    /\ last.op = "InitializeSession"
    /\ state.startingBalance = Num(10) /\ state.balance = Num(10)
    /\ Len(state.history) = 1

\* C25: ResetSession yields the uninitialized state, startingBalance null,
\* balance 0, no positions, nextId 1 and an empty history, and a Load after
\* the reset returns that same state.
C25_ResetThenLoad ==
    /\ [][last'.op = "ResetSession" =>
            /\ state'.startingBalance = None
            /\ state'.balance = Zero
            /\ state'.entries = <<>>
            /\ state'.nextId = 1
            /\ state'.history = <<>>
            /\ loadState(store') = state']_vars
    /\ [][(last.op = "ResetSession" /\ last'.op = "Load") =>
            state' = state /\ state' = Uninitialized]_vars

\* a session was reset, and the stored item holds the uninitialized state
C25_Witness ==
    /\ last.op = "ResetSession"
    /\ state = Uninitialized
    /\ store.startingBalance = Null
    /\ store.entries = <<>>

\* C26: RecordIfChanged is idempotent: of two calls in succession the first
\* appends at most one point and the second none.
C26_RecordIdempotent ==
    /\ [](Initialized =>
            LET first == pushHistoryPoint(state, ops + 1)
                second == pushHistoryPoint(first.s, ops + 2)
            IN  /\ Len(first.s.history) <= Len(state.history) + 1
                /\ second = [s |-> first.s, res |-> "same"])
    /\ [][(last.op = "RecordIfChanged" /\ last'.op = "RecordIfChanged") =>
            last'.res = "same" /\ state' = state]_vars

\* the first of two calls appended the only point, the second nothing
C26_Witness ==
    /\ last.op = "RecordIfChanged" /\ last.res = "same"
    /\ Len(state.history) = 1
    /\ state.history[1].t = ops /\ ops > 0

\* x >= the tolerance of line 126
AtLeastTol(x) == x[1] > 0 /\ (x[2] + x[1] - 1) \div x[1] <= TolInv

\* point p differs from (balance, openValue) by the tolerance or more
Differs(p, balance, openValue) ==
    \/ AtLeastTol(AbsR(Sub(p.balance, balance)))
    \/ AtLeastTol(AbsR(Sub(p.openValue, openValue)))

\* half the tolerance and the tolerance
HalfTol == <<1, 2 * TolInv>>

Tol == <<1, TolInv>>

\* C27: RecordIfChanged appends a point if and only if the history is empty
\* or its last point differs from the current (balance, openValue) by at
\* least the tolerance in one of the two; so no two adjacent points of the
\* history agree within the tolerance in both.
C27_DedupByValue ==
    /\ [](\A i \in 1..(Len(state.history) - 1) :
            Differs(state.history[i], state.history[i + 1].balance,
                    state.history[i + 1].openValue))
    /\ [][last'.op = "RecordIfChanged" =>
            IF state.history = <<>>
               \/ Differs(state.history[Len(state.history)], state.balance,
                          investedOpen(state))
            THEN /\ Len(state'.history) = Len(state.history) + 1
                 /\ state'.history[Len(state'.history)].balance = state.balance
                 /\ state'.history[Len(state'.history)].openValue =
                        investedOpen(state)
            ELSE state'.history = state.history]_vars
    /\ [](\A d \in {Zero, HalfTol, Tol} :
            (/\ state.history # <<>>
             /\ state.balance \in {Zero, Num(1)}
             /\ state.history[Len(state.history)].balance = state.balance
             /\ state.history[Len(state.history)].openValue = investedOpen(state))
            => LET moved == [state EXCEPT !.balance = Add(@, d)]
               IN  pushHistoryPoint(moved, ops + 1).res =
                       IF d = Tol THEN "ok" ELSE "same")

\* a history of several points whose last is the current balance of 0, where
\* a change of half the tolerance and of the tolerance are told apart
C27_Witness ==
    /\ Len(state.history) >= 2
    /\ state.balance = Zero
    /\ state.history[Len(state.history)].balance = Zero
    /\ state.history[Len(state.history)].openValue = investedOpen(state)

\* the operations that change the balance or the positions
ChangingOps ==
    {"InitializeSession", "OpenPosition", "MarkPosition", "ReviseOpenPosition",
     "BuyMore", "PartialSell", "ConfirmSell", "AdjustBalance"}

\* C28: in an initialized session, after every accepted operation that changes
\* the balance or the positions (the snapshot effect included) the history is
\* not empty, and the last point of a non-empty history has the current
\* balance and the current OpenInvestedValue, within the tolerance.
C28_EveryStateCaptured ==
    Initialized =>
        /\ (last.res = "ok" /\ last.op \in ChangingOps) => state.history # <<>>
        /\ state.history # <<>> =>
            ~Differs(state.history[Len(state.history)], state.balance,
                     investedOpen(state))

\* a new mark alone, the balance as it was, put a point in the history
C28_Witness ==
    /\ last.op = "MarkPosition" /\ last.res = "ok"
    /\ Len(state.history) >= 2
    /\ state.history[Len(state.history)].t = ops
    /\ state.history[Len(state.history)].balance =
           state.history[Len(state.history) - 1].balance

\* C29: the history is append-only: every step but ClearSeries,
\* InitializeSession and ResetSession keeps the previous history as a prefix
\* of the new one; ClearSeries empties the history and leaves the balance, the
\* positions and nextId unchanged.
C29_HistoryAppendOnly ==
    /\ [][last'.op \notin {"ClearSeries", "InitializeSession", "ResetSession"}
            => IsPrefix(state.history, state'.history)]_vars
    /\ [][last'.op = "ClearSeries" =>
            /\ state'.history = <<>>
            /\ state'.balance = state.balance
            /\ state'.entries = state.entries
            /\ state'.nextId = state.nextId
            /\ state'.startingBalance = state.startingBalance]_vars

\* a history of three points or more
C29_Witness ==
    /\ Len(state.history) >= 3
    /\ last.op \notin {"ClearSeries", "InitializeSession", "ResetSession"}
    /\ last.res = "ok"

\* C30: what Load reads from what Save stored is the state that was saved:
\* the same startingBalance, balance, positions, nextId and history.
C30_SaveLoadRoundTrip ==
    /\ [](loadState(store) = state)
    /\ [][last'.op = "Load" =>
            /\ state'.startingBalance = state.startingBalance
            /\ state'.balance = state.balance
            /\ state'.entries = state.entries
            /\ state'.nextId = state.nextId
            /\ IsPrefix(state.history, state'.history)]_vars

\* a session with an open and a closed position was loaded
C30_Witness ==
    /\ last.op = "Load"
    /\ \E e \in SetOf(state.entries) : e.status = "sold"
    /\ \E e \in SetOf(state.entries) : e.status = "open"
    /\ Len(state.history) >= 3

\* what Load makes of the stored item when the component mounts: loadState,
\* then the snapshot effect of the mount
Mounted(raw, now) ==
    LET l == loadState(raw)
    IN  IF l.startingBalance # None THEN pushHistoryPoint(l, now).s ELSE l

\* an item Load cannot use: none, not JSON, or a document without a numeric
\* balance or without positions
Unusable(raw) ==
    \/ raw = NoItem
    \/ "SyntaxError" \in DOMAIN raw
    \/ "balance" \notin DOMAIN raw
    \/ raw.balance = Null
    \/ "entries" \notin DOMAIN raw

\* C31: Load never fails.  On a missing item, on content that does not parse
\* and on a document without a numeric balance or without a positions array
\* it gives the canonical uninitialized state (startingBalance null, balance
\* 0, no positions, nextId 1, empty history); on a well-formed document it
\* keeps the balance and the positions and defaults a missing history to the
\* empty one and a missing nextId to 1.
C31_LoadNeverFails ==
    [][last'.op = "Load" =>
         LET l == loadState(store)
         IN  /\ last'.res = "ok"
             /\ state' = Mounted(store, ops + 1)
             /\ Unusable(store) =>
                    /\ l.startingBalance = None
                    /\ l.balance = Zero
                    /\ l.entries = <<>>
                    /\ l.nextId = 1
                    /\ l.history = <<>>
                    /\ state' = l
             /\ ~Unusable(store) =>
                    /\ l.balance = store.balance
                    /\ Len(l.entries) = Len(store.entries)
                    /\ \A i \in 1..Len(l.entries) :
                         \A k \in DOMAIN store.entries[i] :
                            l.entries[i][k] = store.entries[i][k]
                    /\ l.history = IF "history" \in DOMAIN store
                                   THEN store.history ELSE <<>>
                    /\ l.nextId = IF "nextId" \in DOMAIN store
                                  THEN store.nextId ELSE 1]_vars

\* a session that had accepted actions is uninitialized after a Load: the
\* item was unusable; and a Load of a document without history and nextId
C31_Witness ==
    /\ last.op = "Load"
    /\ state = Uninitialized
    /\ ops > 0

\* C32: persistence follows every state transition and never feeds back.
\* After each change of the state a save of the new state is attempted: when
\* the write succeeds the stored item loads back as the state in memory; when
\* it fails, the operation is still accepted and the state in memory is the
\* one it produced (here: the balance moved by the amount of the operation,
\* the reset gave the uninitialized state), with no rollback.
C32_SaveNeverFeedsBack ==
    [][/\ (state' # state /\ writable) => loadState(store') = state'
       /\ (state' # state /\ ~writable) =>
            store' = IF last'.op = "ResetSession" THEN NoItem ELSE store
       /\ (~writable /\ Accepted("AdjustBalance")) =>
            state'.balance = Add(state.balance, last'.args.amount)
       /\ (~writable /\ Accepted("OpenPosition")) =>
            /\ state'.balance = Sub(state.balance, last'.args.amount)
            /\ Len(state'.entries) = Len(state.entries) + 1
       /\ (~writable /\ Accepted("ResetSession")) => state' = Uninitialized
       /\ (~writable /\ state' # state /\ last'.op # "ConfirmSell") =>
            last'.res = "ok"]_vars

\* a position was opened while the writes fail: the state in memory has it,
\* the stored item does not
C32_Witness ==
    /\ ~writable
    /\ last.op = "OpenPosition"
    /\ last.res = "ok"
    /\ Len(state.entries) = 1
    /\ store # NoItem
    /\ Len(store.entries) = 0

\* C33: value-based sell conversion.  Selling the full current value of an
\* open position at a mark (v = investedAmount * m / averageEntryMark, the
\* value "Sell All" fills in) gives a sellAmount = v / (m / averageEntryMark)
\* that PartialSell accepts; the balance increases by exactly v and the
\* position closes.
C33_SellAllCloses ==
    [][last'.op = "SellAll" =>
         /\ last'.res = "ok"
         /\ state'.balance = Add(state.balance, last'.args.amount)
         /\ EntryOf(state', last'.args.id).status = "sold"]_vars

\* the closed positions and the winners among them, as sets of indices
ClosedAt(s) == {i \in 1..Len(s.entries) : s.entries[i].status = "sold"}

WinnersAt(s) == {i \in ClosedAt(s) : IsPos(s.entries[i].pnl)}

RECURSIVE SumFinalPnl(_, _)
SumFinalPnl(s, I) ==
    IF I = {} THEN Zero
    ELSE LET i == CHOOSE j \in I : TRUE
         IN  Add(s.entries[i].pnl, SumFinalPnl(s, I \ {i}))

\* the ledger without its open positions
ClosedOnly(s) == [s EXCEPT !.entries = soldEntries(s)]

RECURSIVE SumField(_, _)
SumField(entries, key) ==
    IF entries = <<>> THEN Zero
    ELSE Add(Head(entries)[key], SumField(Tail(entries), key))

\* balance + the investedAmount of all positions - the realizedGain of all
\* positions: by the identity, startingBalance + the accepted deltas
Books(s) ==
    Sub(Add(s.balance, SumField(s.entries, "solInvested")),
        SumField(s.entries, "realizedPnl"))

\* what a position had left when a sell of this step closed it
Residue(e, f) ==
    IF e.status = "open" /\ f.status = "sold"
    THEN Sub(e.solInvested, Sub(f.cumulativeSellAmount, e.cumulativeSellAmount))
    ELSE Zero

\* over the first n positions of `old`, each with what became of it in `new`
\* (addEntry puts a new position in front of the others, line 192)
RECURSIVE SumResidue(_, _, _)
SumResidue(old, new, n) ==
    IF n = 0 THEN Zero
    ELSE Add(IF HasEntry(new, old.entries[n].id)
             THEN Residue(old.entries[n], EntryOf(new, old.entries[n].id))
             ELSE Zero,
             SumResidue(old, new, n - 1))

AdjustedBy == IF Accepted("AdjustBalance") THEN last'.args.amount ELSE Zero

\* C35 as stated: global accounting identity.  In every reachable state of an
\* initialized session, balance + the sum of investedAmount over all positions
\* equals startingBalance + the sum of the accepted AdjustBalance deltas + the
\* sum of realizedGain over all positions.  Stated as its induction:
\* InitializeSession establishes it with no deltas, and every step of the
\* session adds the delta it accepted, if any, to both sides.
C35_AccountingIdentity_AsStated ==
    [][Initialized' =>
         IF ~Initialized THEN Books(state') = state'.startingBalance
         ELSE /\ state'.startingBalance = state.startingBalance
              /\ Books(state') = Add(Books(state), AdjustedBy)]_vars

\* C35 amended: the identity holds up to what the closure rule drops.  A sell
\* that leaves at most epsilon closes the position and forces investedAmount
\* to 0; that residue, between 0 and epsilon, leaves the left-hand side.
C35_AccountingIdentity ==
    [][Initialized' =>
         IF ~Initialized THEN Books(state') = state'.startingBalance
         ELSE LET dropped == SumResidue(state, state', Len(state.entries))
              IN  /\ state'.startingBalance = state.startingBalance
                  /\ Books(state') =
                       Sub(Add(Books(state), AdjustedBy), dropped)
                  /\ Le(Zero, dropped)
                  /\ Le(dropped, Mul(Eps, Num(Len(state.entries))))
                  /\ ~(Accepted("PartialSell") \/ Accepted("ConfirmSell"))
                       => dropped = Zero]_vars

\* a position was closed by a sell that left a residue of epsilon: the books
\* are short of startingBalance by it
C35_Witness ==
    /\ Initialized
    /\ last.op = "PartialSell"
    /\ last.res = "ok"
    /\ Books(state) = Sub(state.startingBalance, Eps)

\* C36: for every position in every reachable state, realizedGain equals
\* cumulativeSoldProceeds - cumulativeSoldUnits; in particular, for every
\* closed position, finalPnl equals totalProceeds - cumulativeSoldUnits.
C36_RealizedIsProceedsLessUnits ==
    \A i \in 1..Len(state.entries) :
        LET e == state.entries[i]
        IN  /\ e.realizedPnl =
                 Sub(e.cumulativeSellReturnedSOL, e.cumulativeSellAmount)
            /\ e.status = "sold" =>
                 e.pnl = Sub(e.solReturned, e.cumulativeSellAmount)

\* a position closed at a gain next to one sold in part or not at all
C36_Witness ==
    /\ Len(state.entries) = 2
    /\ state.entries[1].status = "sold"
    /\ IsPos(state.entries[1].pnl)
    /\ IsPos(state.entries[1].cumulativeSellAmount)
    /\ state.entries[2].status = "open"

\* investedAmount less what the cumulative fields say is invested
Gap(e) ==
    Sub(e.solInvested, Sub(e.cumulativeBuySOL, e.cumulativeSellAmount))

\* this step is an accepted Revise that changes the investedAmount of the
\* position e, which becomes f
RevisesInvested(e, f) ==
    /\ Accepted("ReviseOpenPosition")
    /\ e.id = last'.args.id
    /\ f.solInvested # e.solInvested

\* C37 as stated: for every position whose investedAmount was never changed
\* through ReviseOpenPosition, investedAmount equals cumulativeBought -
\* cumulativeSoldUnits in every reachable state, so such a position closes
\* exactly when cumulativeSoldUnits equals cumulativeBought; a Revise that
\* changes investedAmount breaks the equality.  Stated as its induction: the
\* gap between the two is 0 for a new position, every step other than such a
\* Revise keeps it, and a position without gap is closed exactly when it has
\* sold all it bought.
C37_InvestedIsBoughtLessSold_AsStated ==
    [][\A i \in 1..Len(state'.entries) :
         LET f == state'.entries[i]
             e == EntryOf(state, f.id)
         IN  IF ~HasEntry(state, f.id) THEN Gap(f) = Zero
             ELSE IF RevisesInvested(e, f) THEN Gap(f) # Gap(e)
             ELSE /\ Gap(f) = Gap(e)
                  /\ Gap(f) = Zero =>
                       (f.status = "sold" <=>
                          f.cumulativeSellAmount = f.cumulativeBuySOL)]_vars

\* C37 amended: the equality holds while the position is open.  The sell that
\* closes it forces investedAmount to 0 and leaves cumulativeBought -
\* cumulativeSoldUnits at the residue it dropped, between 0 and epsilon; a
\* sell closes the position exactly when what it leaves is at most epsilon.
C37_InvestedIsBoughtLessSold ==
    [][\A i \in 1..Len(state'.entries) :
         LET f == state'.entries[i]
         IN  IF ~HasEntry(state, f.id) THEN Gap(f) = Zero
             ELSE LET e == EntryOf(state, f.id)
                      sold == Sub(f.cumulativeSellAmount, e.cumulativeSellAmount)
                  IN  IF RevisesInvested(e, f) THEN Gap(f) # Gap(e)
                      ELSE IF e.status = "open" /\ f.status = "sold"
                      THEN /\ f.solInvested = Zero
                           /\ Gap(f) = Sub(Gap(e), Residue(e, f))
                           /\ Le(Zero, Residue(e, f))
                           /\ Le(Residue(e, f), Eps)
                      ELSE /\ Gap(f) = Gap(e)
                           /\ IsPos(sold) => Lt(Eps, Sub(e.solInvested, sold))]_vars

\* a position that was never revised is closed with investedAmount 0 while
\* it has sold epsilon less than it bought
C37_Witness ==
    /\ last.op = "PartialSell"
    /\ last.res = "ok"
    /\ Len(state.entries) = 1
    /\ state.entries[1].status = "sold"
    /\ state.entries[1].solInvested = Zero
    /\ Sub(state.entries[1].cumulativeBuySOL,
           state.entries[1].cumulativeSellAmount) = Eps
    /\ ~track[1].avgEdited

\* the sells tried on a position: all of it, and one unit, at each mark
ClosingSells(e) == SellMarks \X {e.solInvested, Num(1)}

\* C38: every open position can still be closed: in every reachable state
\* and for every open position there is a PartialSell, with a positive mark
\* and amount, that is accepted and moves the position to closed.
C38_OpenCanBeClosed ==
    \A i \in 1..Len(state.entries) :
        LET e == state.entries[i]
        IN  e.status = "open" =>
              \E x \in ClosingSells(e) :
                 LET r == partialSell(state, e.id, x[1], x[2], ops + 1)
                 IN  /\ r.res = "ok"
                     /\ EntryOf(r.s, e.id).status = "sold"

\* C39: for every closed position finalPnlPercent > -100 (a position cannot
\* lose more than all capital recorded as bought), over all sequences of
\* OpenPosition, BuyMore, PartialSell and ReviseOpenPosition with positive
\* marks.
C39_LossBounded ==
    \A i \in 1..Len(state.entries) :
        state.entries[i].status = "sold" =>
            Lt(Num(-100), state.entries[i].pnlPercent)

\* C40: whenever the ledger is uninitialized (startingBalance null), in a
\* state reached from an empty store through user actions, the balance is 0,
\* there are no positions, nextId is 1 and the history is empty; the snapshot
\* effect never appends a point while startingBalance is null.
C40_UninitializedIsCanonical ==
    /\ [](~Initialized =>
            /\ state.balance = Zero
            /\ state.entries = <<>>
            /\ state.nextId = 1
            /\ state.history = <<>>
            /\ snapshotEffect(state, state, TRUE, ops + 1) = state)
    /\ [][~Initialized' => state'.history = <<>>]_vars

\* the ledger is uninitialized again after a session that opened a position
C40_Witness ==
    /\ ~Initialized
    /\ last.op = "ResetSession"
    /\ state.history = <<>>
    /\ state.nextId = 1

====
